---- MODULE Spec2Model ----
(***************************************************************************)
(* Odoo companion for Raycast: the OdooService JSON-RPC client             *)
(* (authenticate / execute / searchRead / searchByName / getAll /          *)
(* invalidateAuth) and the SearchProjects / SearchHelpdesk views that      *)
(* drive it from a debounced search text.                                  *)
(*                                                                         *)
(* One action is one JavaScript macrotask: the synchronous code up to the  *)
(* next pending fetch()/json() promise, including every microtask          *)
(* continuation (await of an already settled promise, finally, .then).     *)
(***************************************************************************)
EXTENDS Integers, Sequences, FiniteSets, TLC

VARIABLES
    uid,          \* OdooService.uid, one cache per OdooService instance
    pending,      \* the service invocations whose promise has not settled
    done,         \* the invocation that settled in the step just taken:
                  \* <<c>>, or <<>> when the step settled none
    nStarted,     \* number of invocations started so far
    searchText,   \* the view's searchText state
    projects,     \* the view's projects state (record ids)
    isLoading,    \* the view's isLoading state
    mounted,      \* the view's effects have run once
    nChanges,     \* number of searchText changes = index of the render whose
                  \* closures (and OdooService instance) the armed timer holds
    timers,       \* pending setTimeout callbacks of the debounce effect
    lastFire,     \* history: what the debounce timer that fired last did
    fired,        \* history: the renders whose timer has fired, in firing order
    shown,        \* history: the dispatch that settled last, its payload, and
                  \* the dispatch and payload that one replaced
    issued,       \* history: session ids login has returned, per instance
    nInval,       \* history: invalidateAuth has been called (0 or 1)
    epochCalls,   \* history: client calls started since the last invalidateAuth
    epochLogins,  \* history: login requests of client calls since then
    orderly,      \* history: client calls ran one after another
    loginsOk,     \* history: every login answered so far returned a session id
    probe         \* one application of a service function to given arguments:
                  \* the arguments, and what the function made of them

svcVars == <<uid, pending, done, nStarted, issued>>

viewVars == <<searchText, projects, isLoading, mounted, nChanges, timers,
              lastFire, fired, shown>>

clientVars == <<nInval, epochCalls, epochLogins>>

vars == <<svcVars, viewVars, clientVars, orderly, loginsOk, probe>>

(***************************************************************************)
(* Bounds                                                                  *)
(***************************************************************************)
MaxTextLen == 2
MaxChanges == 2
MaxCalls == 3
MaxInFlight == 2
MaxCap == 2
MaxRequestId == 2

(***************************************************************************)
(* Program constants                                                       *)
(***************************************************************************)
DebounceDelay == 300
DefaultLimit == 100
IdSpace == 1000000

TimeStep == DebounceDelay \div 3

(***************************************************************************)
(* JSON values as JavaScript sees them                                     *)
(***************************************************************************)
JUndef == [k |-> "undefined", n |-> 0, s |-> "", l |-> <<>>]
JNull == [k |-> "null", n |-> 0, s |-> "", l |-> <<>>]
JBool(b) == [k |-> "bool", n |-> IF b THEN 1 ELSE 0, s |-> "", l |-> <<>>]
JNum(i) == [k |-> "num", n |-> i, s |-> "", l |-> <<>>]
JStr(str) == [k |-> "str", n |-> 0, s |-> str, l |-> <<>>]
JList(ids) == [k |-> "list", n |-> 0, s |-> "", l |-> ids]

\* JavaScript truthiness: undefined, null, false, 0 and "" are falsy.
Truthy(v) ==
    CASE v.k = "undefined" -> FALSE
      [] v.k = "null" -> FALSE
      [] v.k = "bool" -> v.n = 1
      [] v.k = "num" -> v.n # 0
      [] v.k = "str" -> v.s # ""
      [] OTHER -> TRUE

\* JavaScript  v || d
OrElse(v, d) == IF Truthy(v) THEN v ELSE d

(***************************************************************************)
(* Search texts: sequences of characters, " " being whitespace             *)
(***************************************************************************)
Chars == {"a", " "}

Texts == UNION {[1..n -> Chars] : n \in 0..MaxTextLen}

IsSpace(ch) == ch = " "

RECURSIVE TrimStart(_)
TrimStart(t) ==
    IF t = <<>> THEN <<>>
    ELSE IF IsSpace(Head(t)) THEN TrimStart(Tail(t)) ELSE t

RECURSIVE TrimEnd(_)
TrimEnd(t) ==
    IF t = <<>> THEN <<>>
    ELSE IF IsSpace(t[Len(t)]) THEN TrimEnd(SubSeq(t, 1, Len(t) - 1)) ELSE t

\* String.prototype.trim
Trim(t) == TrimEnd(TrimStart(t))

(***************************************************************************)
(* RPC transport: what  await fetch(...)  followed by                      *)
(* await response.json()  can produce                                      *)
(***************************************************************************)
\* The error member of an OdooResponse: absent, or {message, data?: {message}}
NoError == [present |-> FALSE, message |-> "", hasData |-> FALSE, dataMessage |-> ""]
ErrorOf(msg) == [present |-> TRUE, message |-> msg, hasData |-> FALSE, dataMessage |-> ""]
ErrorWithData(msg, dmsg) ==
    [present |-> TRUE, message |-> msg, hasData |-> TRUE, dataMessage |-> dmsg]

\* fetch() rejects
NetDown == [net |-> FALSE, status |-> 0, error |-> NoError, result |-> JUndef]
\* fetch() resolves with an HTTP status and a body {error?, result?}
Http(status, err, res) == [net |-> TRUE, status |-> status, error |-> err, result |-> res]

\* Response.ok
HttpOk(status) == status >= 200 /\ status <= 299

NetworkFailure == "fetch failed"
HttpErrorMessage(status) == "HTTP error! status: " \o ToString(status)

\* Variant of ErrorMessage that always takes the top-level message.
ErrorMessage_TopLevel(err) == err.message

\* data.error.data?.message || data.error.message
ErrorMessage(err) ==
    IF err.hasData /\ err.dataMessage # "" THEN err.dataMessage ELSE err.message

\* What the transport may answer to common.login
LoginResponses ==
    {NetDown,
     Http(500, NoError, JUndef),
     Http(200, ErrorOf("Invalid credentials"), JNum(7)),
     Http(200, NoError, JNull),
     Http(200, NoError, JBool(FALSE)),
     Http(200, NoError, JNum(0)),
     Http(200, NoError, JNum(7)),
     Http(200, NoError, JNum(8))}

\* What the transport may answer to object.execute_kw
ExecResponses ==
    {NetDown,
     Http(500, NoError, JUndef),
     Http(200, ErrorWithData("Odoo Server Error", "Access Denied"), JList(<<12>>)),
     Http(200, NoError, JNull),
     Http(200, NoError, JList(<<>>)),
     Http(200, NoError, JList(<<12>>))}

\* The transport code shared by authenticate and execute.
\* Which of its three throw sites a response reaches: "network" (fetch
\* rejects), "http" (!response.ok), "rpc" (data.error), or "" (none)
Fault(r) ==
    IF ~r.net THEN "network"
    ELSE IF ~HttpOk(r.status) THEN "http"
    ELSE IF r.error.present THEN "rpc"
    ELSE ""

Failed(r) == Fault(r) # ""

\* The message of the Error thrown there
TransportError(r) ==
    CASE Fault(r) = "network" -> NetworkFailure
      [] Fault(r) = "http" -> HttpErrorMessage(r.status)
      [] Fault(r) = "rpc" -> ErrorMessage(r.error)
      [] OTHER -> ""

(***************************************************************************)
(* Service invocations                                                     *)
(***************************************************************************)
Apis == {"authenticate", "execute", "searchByName", "getAll"}

SearchApis == {"searchByName", "getAll"}

NewCall(seq, api, origin, inst, text) ==
    [seq |-> seq,            \* identity: the view's start order, a client's slot
     api |-> api,            \* the OdooService method invoked
     origin |-> origin,      \* "client", "mount" or "timer"
     inst |-> inst,          \* the OdooService instance
     text |-> text,          \* the query of searchByName
     pc |-> "start",         \* awaiting: "login", "exec"; or "done"
     login |-> "none",       \* login request: "none", "sent", "ok", "failed"
     exec |-> "none",        \* execute_kw request: "none", "sent", "ok", "failed"
     execUid |-> JUndef,     \* the session id the execute_kw request carries
     logins |-> 0,           \* history: login requests sent for this call
     execs |-> 0,            \* history: execute_kw requests sent for this call
     state |-> "pending",    \* the returned promise: "resolved" or "rejected"
     value |-> JUndef,       \* its value when resolved
     error |-> "",           \* the message of the error it is rejected with
     fault |-> "",           \* history: the throw site its failure came from
     toasts |-> <<>>]        \* the showToast calls made for this call

Pending(c) == c.pc # "done"

Settle(c, st, v, msg) ==
    [c EXCEPT !.pc = "done", !.state = st, !.value = v, !.error = msg]

\* Variant of SearchReadCatch that lets the error through.
SearchReadCatch_Rethrow(c, msg) == Settle(c, "rejected", JUndef, msg)

\* showToast({style: Toast.Style.Failure, title, message})
ShowToast(c, title, msg) ==
    [c EXCEPT !.toasts = Append(@, [title |-> title, message |-> msg])]

\* searchRead's catch block: notify, return []
SearchReadCatch(c, msg) ==
    Settle(ShowToast(c, "Search Error", msg), "resolved", JList(<<>>), "")

\* searchRead after execute resolved: return result || []
SearchReadReturn(c, v) == Settle(c, "resolved", OrElse(v, JList(<<>>)), "")

\* execute resolves with v (for searchByName / getAll, searchRead goes on)
ExecuteReturn(c, v) ==
    IF c.api \in SearchApis THEN SearchReadReturn(c, v)
    ELSE Settle(c, "resolved", v, "")

\* Variant of ExecuteThrow that turns the error into an absent result.
ExecuteThrow_Swallow(c, msg) == ExecuteReturn(c, JNull)

\* Variant of ExecuteThrow that sends the failed request once more.
ExecuteThrow_Retry(c, msg) ==
    IF c.execs < 2 THEN [c EXCEPT !.pc = "exec", !.exec = "sent", !.execs = @ + 1]
    ELSE IF c.api \in SearchApis THEN SearchReadCatch(c, msg)
    ELSE Settle(c, "rejected", JUndef, msg)

\* execute's catch block rethrows (for searchByName / getAll, searchRead catches)
ExecuteThrow(c, msg) ==
    IF c.api \in SearchApis THEN SearchReadCatch(c, msg)
    ELSE Settle(c, "rejected", JUndef, msg)

\* execute once its execute_kw request is answered by r (or fails)
ExecuteAnswer(c, r) ==
    IF Failed(r)
    THEN ExecuteThrow([c EXCEPT !.exec = "failed", !.fault = Fault(r)], TransportError(r))
    ELSE ExecuteReturn([c EXCEPT !.exec = "ok"], OrElse(r.result, JNull))

\* Variant of ExecuteWithUid without the  if (!uid) return null  guard.
ExecuteWithUid_Unchecked(c, u) ==
    [c EXCEPT !.pc = "exec", !.exec = "sent", !.execUid = u, !.execs = @ + 1]

\* Variant of ExecuteWithUid that throws when authenticate returned no id.
ExecuteWithUid_Throw(c, u) ==
    IF ~Truthy(u) THEN ExecuteThrow(c, "Authentication failed")
    ELSE [c EXCEPT !.pc = "exec", !.exec = "sent", !.execUid = u, !.execs = @ + 1]

\* execute after  const uid = await this.authenticate()
ExecuteWithUid(c, u) ==
    IF ~Truthy(u) THEN ExecuteReturn(c, JNull)
    ELSE [c EXCEPT !.pc = "exec", !.exec = "sent", !.execUid = u, !.execs = @ + 1]

\* authenticate returned u to its caller
AfterAuthenticate(c, u) ==
    IF c.api = "authenticate" THEN Settle(c, "resolved", u, "")
    ELSE ExecuteWithUid(c, u)

\* authenticate's catch block: notify, return null
AuthCatch(c, msg) ==
    AfterAuthenticate(ShowToast(c, "Authentication Error", msg), JNull)

\* Variant of CachedUid that never uses the cache.
CachedUid_Never(u) == FALSE

\* authenticate: if (this.uid) return this.uid
CachedUid(u) == Truthy(u)

\* authenticate: this.uid = data.result || null
LoginStore(result) == OrElse(result, JNull)

\* Variant of LoginUid that stores data.result before looking at the failure.
LoginUid_StoreAlways(old, r) == LoginStore(r.result)

\* this.uid after authenticate has handled the answer r to its login request
LoginUid(old, r) == IF Failed(r) THEN old ELSE LoginStore(r.result)

\* authenticate, and its caller up to the next request, once the login
\* request is answered by r (or fails) on an instance whose cache was old
LoginAnswer(c, old, r) ==
    IF Failed(r)
    THEN AuthCatch([c EXCEPT !.login = "failed", !.fault = Fault(r)], TransportError(r))
    ELSE AfterAuthenticate([c EXCEPT !.login = "ok"], LoginUid(old, r))

\* invalidateAuth: this.uid = null
InvalidateAuth(u) == JNull

\* Variant of StartCall that never looks at the cache.
StartCall_NoCache(c, u) == [c EXCEPT !.pc = "login", !.login = "sent", !.logins = @ + 1]

\* Variant of StartCall that sends no login while one is in flight on the
\* instance and waits for that one.
StartCall_Dedup(c, u) ==
    IF CachedUid(u) THEN AfterAuthenticate(c, u)
    ELSE IF \E d \in pending : d.inst = c.inst /\ d.pc = "login"
    THEN [c EXCEPT !.pc = "login"]
    ELSE [c EXCEPT !.pc = "login", !.login = "sent", !.logins = @ + 1]

\* The synchronous start of a service method on an instance whose cache is u
StartCall(c, u) ==
    IF CachedUid(u) THEN AfterAuthenticate(c, u)
    ELSE [c EXCEPT !.pc = "login", !.login = "sent", !.logins = @ + 1]

(***************************************************************************)
(* The execute_kw call the query helpers hand to execute                   *)
(***************************************************************************)
\* Option objects are functions from their keys; a key that is not in the
\* domain reads as undefined.
Get(options, key) == IF key \in DOMAIN options THEN options[key] ELSE JUndef

\* { ...options, key: v }
Spread(options, key, v) ==
    [x \in DOMAIN options \cup {key} |-> IF x = key THEN v ELSE options[x]]

\* execute(model, method, args, kwargs): the part of params.args it is given
ExecuteKw(model, method, args, kwargs) ==
    [model |-> model, method |-> method, args |-> args, kwargs |-> kwargs]

\* searchRead: this.execute(model, "search_read", [domain], options)
SearchReadRequest(model, domain, options) ==
    ExecuteKw(model, "search_read", <<domain>>, options)

\* searchByName: the domain ["|", ["name", "ilike", query], ...]
NameDomain(query) ==
    <<"|", <<"name", "ilike", query>>, <<"display_name", "ilike", query>>>>

\* searchByName: this.searchRead(model, domain, { ...options, domain })
SearchByNameRequest(model, query, options) ==
    SearchReadRequest(model, NameDomain(query),
                      Spread(options, "domain", NameDomain(query)))

\* getAll: limit: options.limit || 100
GetAllLimit(options) == OrElse(Get(options, "limit"), JNum(DefaultLimit))

\* getAll: this.searchRead(model, [], { ...options, limit: ... })
GetAllRequest(model, options) ==
    SearchReadRequest(model, <<>>, Spread(options, "limit", GetAllLimit(options)))

\* An invocation c0 run to its end on an instance whose cache is u, against a
\* backend that answers every login with rl and every execute_kw with r
RunCall(c0, u, rl, r) ==
    LET a == StartCall(c0, u)
        b == IF a.pc = "login" THEN LoginAnswer(a, u, rl) ELSE a
    IN  IF b.pc = "exec" THEN ExecuteAnswer(b, r) ELSE b

\* The cache of that instance after the invocation
CacheAfter(u, rl) == IF CachedUid(u) THEN u ELSE LoginUid(u, rl)

(***************************************************************************)
(* What the view does when its promise settles:                            *)
(* finally { setIsLoading(false) } and .then(setProjects)                  *)
(***************************************************************************)
\* Variant of ApplyCompletion that drops the completion of a dispatch older
\* than the one displayed.
ApplyCompletion_LatestWins(old, c) == IF c.seq < shown.seq THEN old ELSE c.value.l

ApplyCompletion(old, c) == c.value.l

Shown(c) == [seq |-> c.seq, payload |-> c.value.l,
             overSeq |-> shown.seq, overPayload |-> shown.payload]

\* Variant of Commit in which setIsLoading(false) is skipped when a request
\* of the invocation failed.
Commit_NoFinally(old, c) ==
    /\ pending' = (pending \ {old}) \cup (IF Pending(c) THEN {c} ELSE {})
    /\ done' = IF Pending(c) THEN <<>> ELSE <<c>>
    /\ IF ~Pending(c) /\ c.origin # "client"
       THEN /\ isLoading' = IF c.fault = "" THEN FALSE ELSE isLoading
            /\ projects' = ApplyCompletion(projects, c)
            /\ shown' = Shown(c)
       ELSE UNCHANGED <<isLoading, projects, shown>>

\* Variant of Commit in which isLoading stays true while another request of
\* the view is in flight.
Commit_WhileInFlight(old, c) ==
    /\ pending' = (pending \ {old}) \cup (IF Pending(c) THEN {c} ELSE {})
    /\ done' = IF Pending(c) THEN <<>> ELSE <<c>>
    /\ IF ~Pending(c) /\ c.origin # "client"
       THEN /\ isLoading' = (pending \ {old} # {})
            /\ projects' = ApplyCompletion(projects, c)
            /\ shown' = Shown(c)
       ELSE UNCHANGED <<isLoading, projects, shown>>

\* Invocation `old` (a member of pending, or none when old = c) becomes c.
Commit(old, c) ==
    /\ pending' = (pending \ {old}) \cup (IF Pending(c) THEN {c} ELSE {})
    /\ done' = IF Pending(c) THEN <<>> ELSE <<c>>
    /\ IF ~Pending(c) /\ c.origin # "client"
       THEN /\ isLoading' = FALSE
            /\ projects' = ApplyCompletion(projects, c)
            /\ shown' = Shown(c)
       ELSE UNCHANGED <<isLoading, projects, shown>>

(***************************************************************************)
(* Network steps of a pending call                                         *)
(***************************************************************************)
\* The login request is answered (or fails): the rest of authenticate, and of
\* its caller up to the next request.
LoginRespond(c) ==
    /\ c.pc = "login"
    /\ \E r \in LoginResponses :
         /\ uid' = [uid EXCEPT ![c.inst] = LoginUid(@, r)]
         /\ Commit(c, LoginAnswer(c, uid[c.inst], r))
         /\ IF Failed(r)
            THEN /\ loginsOk' = FALSE
                 /\ UNCHANGED issued
            ELSE LET u == LoginStore(r.result) IN
                 /\ issued' = [issued EXCEPT ![c.inst] = @ \cup (IF Truthy(u) THEN {u} ELSE {})]
                 /\ loginsOk' = (loginsOk /\ Truthy(u))
    /\ UNCHANGED <<nStarted, searchText, mounted, nChanges, timers, lastFire, fired,
                   orderly>>
    /\ UNCHANGED <<clientVars, probe>>

\* The execute_kw request is answered (or fails): the rest of execute and of
\* searchRead.
ExecRespond(c) ==
    /\ c.pc = "exec"
    /\ \E r \in ExecResponses : Commit(c, ExecuteAnswer(c, r))
    /\ UNCHANGED <<uid, issued, nStarted, searchText, mounted, nChanges, timers,
                   lastFire, fired, orderly, loginsOk>>
    /\ UNCHANGED <<clientVars, probe>>

Network == \E c \in pending : LoginRespond(c) \/ ExecRespond(c)

(***************************************************************************)
(* A client of one OdooService instance (instance 0)                       *)
(***************************************************************************)
ClientQuery == <<"a">>

\* A client tells its outstanding calls apart by the least unused number.
FreeSlot ==
    CHOOSE k \in 1..(Cardinality(pending) + 1) :
        /\ \A c \in pending : c.seq # k
        /\ \A j \in 1..(k - 1) : \E c \in pending : c.seq = j

ClientCall ==
    /\ nStarted < MaxCalls
    /\ Cardinality(pending) < MaxInFlight
    /\ \E api \in Apis :
         LET t == IF api = "searchByName" THEN ClientQuery ELSE <<>>
             c0 == NewCall(FreeSlot, api, "client", 0, t)
             c == StartCall(c0, uid[0])
         IN  /\ Commit(c0, c)
             /\ epochLogins' = epochLogins + (IF c.login = "sent" THEN 1 ELSE 0)
    /\ nStarted' = nStarted + 1
    /\ epochCalls' = epochCalls + 1
    /\ orderly' = (orderly /\ pending = {})
    /\ UNCHANGED <<uid, issued, nInval, loginsOk, probe>>
    /\ UNCHANGED <<searchText, mounted, nChanges, timers, lastFire, fired>>

ClientInvalidate ==
    /\ uid' = [uid EXCEPT ![0] = InvalidateAuth(uid[0])]
    /\ nInval' = 1
    /\ epochCalls' = 0
    /\ epochLogins' = 0
    /\ orderly' = (orderly /\ pending = {})
    /\ done' = <<>>
    /\ UNCHANGED <<pending, nStarted, issued, loginsOk, probe>>
    /\ UNCHANGED viewVars

Instances == 0..MaxChanges

\* No function application is under observation.
NoProbe == [op |-> "none", stage |-> "none"]

NoFire == [gen |-> -1, text |-> <<>>, curGen |-> -1, curText |-> <<>>,
           dispatched |-> "nothing", query |-> <<>>]

\* Everything but the observation of a function application
Constructed ==
    /\ uid = [n \in Instances |-> JNull]
    /\ pending = {}
    /\ done = <<>>
    /\ nStarted = 0
    /\ searchText = <<>>
    /\ projects = <<>>
    /\ isLoading = FALSE
    /\ mounted = FALSE
    /\ nChanges = 0
    /\ timers = {}
    /\ lastFire = NoFire
    /\ fired = <<>>
    /\ shown = [seq |-> 0, payload |-> <<>>, overSeq |-> 0, overPayload |-> <<>>]
    /\ issued = [n \in Instances |-> {}]
    /\ nInval = 0
    /\ epochCalls = 0
    /\ epochLogins = 0
    /\ orderly = TRUE
    /\ loginsOk = TRUE

Init == Constructed /\ probe = NoProbe

SvcNext == ClientCall \/ ClientInvalidate \/ Network

SvcSpec == Init /\ [][SvcNext]_vars

(***************************************************************************)
(* The SearchProjects / SearchHelpdesk view                                *)
(***************************************************************************)
\* Every render runs  new OdooService(preferences) : the closures of render g
\* (g = number of searchText changes so far) use instance g.

\* Variant of GetAllProjects in which the mount effect does not load.
GetAllProjects_NotOnMount(origin, inst) ==
    LET c0 == NewCall(nStarted + 1, "getAll", origin, inst, <<>>) IN
    /\ pending' = IF origin = "mount" THEN pending
                  ELSE pending \cup {StartCall(c0, uid[inst])}
    /\ done' = <<>>
    /\ isLoading' = (origin # "mount")
    /\ UNCHANGED <<projects, shown>>

\* getAllProjects: setIsLoading(true), then odooService.getAll
GetAllProjects(origin, inst) ==
    LET c0 == NewCall(nStarted + 1, "getAll", origin, inst, <<>>) IN
    /\ pending' = pending \cup {StartCall(c0, uid[inst])}
    /\ done' = <<>>
    /\ isLoading' = TRUE
    /\ UNCHANGED <<projects, shown>>

\* Variant of BlankQuery without the guard.
BlankQuery_Never(query) == FALSE

\* Variant of BlankQuery that tests the query without trimming it.
BlankQuery_Untrimmed(query) == query = <<>>

\* searchProjects: if (!query.trim()) return []
BlankQuery(query) == Trim(query) = <<>>

\* searchProjects(query).then(setProjects)
SearchProjects(origin, inst, query) ==
    LET c0 == NewCall(nStarted + 1, "searchByName", origin, inst, query) IN
    IF BlankQuery(query)
    THEN \* resolves to [] at once, without touching the service or isLoading
         LET c == Settle([c0 EXCEPT !.api = "none"], "resolved", JList(<<>>), "") IN
         /\ done' = <<c>>
         /\ projects' = ApplyCompletion(projects, c)
         /\ shown' = Shown(c)
         /\ UNCHANGED <<pending, isLoading>>
    ELSE /\ pending' = pending \cup {StartCall(c0, uid[inst])}
         /\ done' = <<>>
         /\ isLoading' = TRUE
         /\ UNCHANGED <<projects, shown>>

\* Variant of DebounceBranch without the minimum length of 2.
DebounceBranch_NoGate(text) == IF Len(text) >= 1 THEN "search" ELSE "all"

\* Variant of DebounceBranch that does not reload on an empty text.
DebounceBranch_SearchOnly(text) == IF Len(text) >= 2 THEN "search" ELSE "none"

\* The debounce callback: which branch it takes for the text of its closure
DebounceBranch(text) ==
    IF Len(text) >= 2 THEN "search"
    ELSE IF Len(text) = 0 THEN "all"
    ELSE "none"

\* setTimeout(callback, 300) of render gen, whose closure holds text
SetTimeout(ts, gen, text) == ts \cup {[gen |-> gen, text |-> text, left |-> DebounceDelay]}

\* Variant of ClearTimeout that leaves the timer armed.
ClearTimeout_Noop(ts, gen) == ts

\* The effect's cleanup: clearTimeout(timeoutId) of the previous render
ClearTimeout(ts, gen) == {t \in ts : t.gen # gen}

\* First commit: the mount effect and the debounce effect run.
Mount ==
    /\ ~mounted
    /\ mounted' = TRUE
    /\ GetAllProjects("mount", 0)
    /\ nStarted' = nStarted + 1
    /\ timers' = SetTimeout(timers, 0, searchText)
    /\ UNCHANGED <<uid, issued, searchText, nChanges, lastFire, fired, orderly, loginsOk>>
    /\ UNCHANGED <<clientVars, probe>>

\* What the user can turn the search text into: type a character, delete the
\* last one, or clear the field.
Edits(text) ==
    ({Append(text, ch) : ch \in Chars} \cup {<<>>}
        \cup (IF text = <<>> THEN {} ELSE {SubSeq(text, 1, Len(text) - 1)}))
    \cap (Texts \ {text})

\* Variant of TextChange in which the effect's cleanup also aborts the
\* requests in flight.
TextChange_Abort ==
    /\ mounted
    /\ nChanges < MaxChanges
    /\ \E t \in Edits(searchText) :
         /\ searchText' = t
         /\ timers' = SetTimeout(ClearTimeout(timers, nChanges), nChanges + 1, t)
    /\ nChanges' = nChanges + 1
    /\ done' = <<>>
    /\ pending' = {}
    /\ UNCHANGED <<uid, issued, nStarted, projects, isLoading, mounted,
                   lastFire, fired, shown, orderly, loginsOk>>
    /\ UNCHANGED <<clientVars, probe>>

\* onSearchTextChange={setSearchText}: re-render, cleanup of the previous
\* debounce effect, then the effect again. React commits the render and runs
\* the effect's cleanup and body before it handles the next timer or event,
\* so the three are one step. setSearchText of an unchanged text re-renders
\* nothing, hence Edits leaves the current text out.
TextChange ==
    /\ mounted
    /\ nChanges < MaxChanges
    /\ \E t \in Edits(searchText) :
         /\ searchText' = t
         /\ timers' = SetTimeout(ClearTimeout(timers, nChanges), nChanges + 1, t)
    /\ nChanges' = nChanges + 1
    /\ done' = <<>>
    /\ UNCHANGED <<uid, issued, pending, nStarted, projects, isLoading, mounted,
                   lastFire, fired, shown, orderly, loginsOk>>
    /\ UNCHANGED <<clientVars, probe>>

\* Time passes; a timer that is due fires before more time passes.
Tick ==
    /\ timers # {}
    /\ \A t \in timers : t.left > 0
    /\ timers' = {[t EXCEPT !.left = @ - TimeStep] : t \in timers}
    /\ done' = <<>>
    /\ UNCHANGED <<uid, issued, pending, nStarted, searchText, projects, isLoading,
                   mounted, nChanges, lastFire, fired, shown, orderly, loginsOk>>
    /\ UNCHANGED <<clientVars, probe>>

\* History: what the callback of timer t did, news being the invocations
\* it made.
Observed(t, news) ==
    [gen |-> t.gen, text |-> t.text, curGen |-> nChanges, curText |-> searchText,
     dispatched |-> IF news = {} THEN "nothing"
                    ELSE LET c == CHOOSE c \in news : TRUE IN
                         IF c.api = "none" THEN "blank" ELSE c.api,
     query |-> IF news = {} THEN <<>> ELSE (CHOOSE c \in news : TRUE).text]

\* Variant of TimerFire that empties the result set when the text is too
\* short to search.
TimerFire_ClearShort ==
    /\ \E t \in timers :
         /\ t.left <= 0
         /\ timers' = timers \ {t}
         /\ fired' = Append(fired, t.gen)
         /\ CASE DebounceBranch(t.text) = "search" ->
                   /\ SearchProjects("timer", t.gen, t.text)
                   /\ nStarted' = nStarted + 1
              [] DebounceBranch(t.text) = "all" ->
                   /\ GetAllProjects("timer", t.gen)
                   /\ nStarted' = nStarted + 1
              [] OTHER ->
                   /\ done' = <<>>
                   /\ projects' = <<>>
                   /\ UNCHANGED <<pending, nStarted, isLoading, shown>>
         /\ lastFire' = Observed(t, (pending' \ pending) \cup {done'[k] : k \in DOMAIN done'})
    /\ UNCHANGED <<uid, issued, searchText, mounted, nChanges, orderly, loginsOk>>
    /\ UNCHANGED <<clientVars, probe>>

\* The debounce callback of a due timer runs.
TimerFire ==
    /\ \E t \in timers :
         /\ t.left <= 0
         /\ timers' = timers \ {t}
         /\ fired' = Append(fired, t.gen)
         /\ CASE DebounceBranch(t.text) = "search" ->
                   /\ SearchProjects("timer", t.gen, t.text)
                   /\ nStarted' = nStarted + 1
              [] DebounceBranch(t.text) = "all" ->
                   /\ GetAllProjects("timer", t.gen)
                   /\ nStarted' = nStarted + 1
              [] OTHER ->
                   /\ done' = <<>>
                   /\ UNCHANGED <<pending, nStarted, projects, isLoading, shown>>
         /\ lastFire' = Observed(t, (pending' \ pending) \cup {done'[k] : k \in DOMAIN done'})
    /\ UNCHANGED <<uid, issued, searchText, mounted, nChanges, orderly, loginsOk>>
    /\ UNCHANGED <<clientVars, probe>>

Next == Mount \/ TextChange \/ Tick \/ TimerFire \/ Network

Spec == Init /\ [][Next]_vars

(***************************************************************************)
(* The per-view variants: a view with its own authenticate and its own     *)
(* searchProjects / getAllProjects, and no OdooService                     *)
(***************************************************************************)
PerViewApis == {"searchProjects", "getAllProjects"}

\* searchProjects / getAllProjects: setIsLoading(true), then
\* await authenticate(), which sends a login request every time
PerViewStart(c) == [c EXCEPT !.pc = "login", !.login = "sent", !.logins = @ + 1]

\* Variant of PerViewAfterLogin without the  if (!uid) return []  guard.
PerViewAfterLogin_Unchecked(c, u) ==
    [c EXCEPT !.pc = "exec", !.exec = "sent", !.execUid = u, !.execs = @ + 1]

\* const uid = await authenticate(); if (!uid) return []; then the
\* execute_kw request
PerViewAfterLogin(c, u) ==
    IF ~Truthy(u) THEN Settle(c, "resolved", JList(<<>>), "")
    ELSE [c EXCEPT !.pc = "exec", !.exec = "sent", !.execUid = u, !.execs = @ + 1]

\* authenticate once its login request is answered by r (or fails):
\* return data.result, or notify and return null
PerViewLoginAnswer(c, r) ==
    IF Failed(r)
    THEN PerViewAfterLogin(ShowToast([c EXCEPT !.login = "failed", !.fault = Fault(r)],
                                     "Authentication Error", TransportError(r)),
                           JNull)
    ELSE PerViewAfterLogin([c EXCEPT !.login = "ok"], r.result)

\* searchProjects / getAllProjects once the execute_kw request is answered:
\* return data.result || [], or notify and return []
PerViewExecAnswer(c, r) ==
    IF Failed(r)
    THEN Settle(ShowToast([c EXCEPT !.exec = "failed", !.fault = Fault(r)],
                          "Error", TransportError(r)),
                "resolved", JList(<<>>), "")
    ELSE Settle([c EXCEPT !.exec = "ok"], "resolved", OrElse(r.result, JList(<<>>)), "")

\* The debounce callback or the mount effect dispatches
PerViewDispatch ==
    /\ nStarted < MaxCalls
    /\ Cardinality(pending) < MaxInFlight
    /\ \E api \in PerViewApis :
         LET t == IF api = "searchProjects" THEN ClientQuery ELSE <<>>
             c0 == NewCall(nStarted + 1, api, "timer", 0, t)
         IN  pending' = pending \cup {PerViewStart(c0)}
    /\ done' = <<>>
    /\ isLoading' = TRUE
    /\ nStarted' = nStarted + 1
    /\ UNCHANGED <<uid, issued, searchText, projects, mounted, nChanges, timers,
                   lastFire, fired, shown, orderly, loginsOk>>
    /\ UNCHANGED <<clientVars, probe>>

PerViewLoginRespond(c) ==
    /\ c.pc = "login"
    /\ \E r \in LoginResponses : Commit(c, PerViewLoginAnswer(c, r))
    /\ UNCHANGED <<uid, issued, nStarted, searchText, mounted, nChanges, timers,
                   lastFire, fired, orderly, loginsOk>>
    /\ UNCHANGED <<clientVars, probe>>

PerViewExecRespond(c) ==
    /\ c.pc = "exec"
    /\ \E r \in ExecResponses : Commit(c, PerViewExecAnswer(c, r))
    /\ UNCHANGED <<uid, issued, nStarted, searchText, mounted, nChanges, timers,
                   lastFire, fired, orderly, loginsOk>>
    /\ UNCHANGED <<clientVars, probe>>

PerViewNetwork == \E c \in pending : PerViewLoginRespond(c) \/ PerViewExecRespond(c)

PerViewNext == PerViewDispatch \/ PerViewNetwork

PerViewSpec == Init /\ [][PerViewNext]_vars

(***************************************************************************)
(* The service functions applied once to arguments of every shape          *)
(***************************************************************************)
Models == {"project.project", "helpdesk.team"}

FieldLists == {<<>>, <<"name">>, <<"id", "display_name">>}

\* The options a view passes to searchByName: { fields }
SearchOptions == {[fields |-> f] : f \in FieldLists}

SearchByNameInputs ==
    {[op |-> "searchByName", stage |-> "in", model |-> m, query |-> q, options |-> o] :
        m \in Models, q \in Texts, o \in SearchOptions}

\* The options given to getAll: { fields } or { fields, limit: cap }
GetAllOptions ==
    SearchOptions \cup
    {[fields |-> f, limit |-> JNum(cap)] : f \in FieldLists, cap \in 0..MaxCap}

GetAllInputs ==
    {[op |-> "getAll", stage |-> "in", model |-> m, options |-> o] :
        m \in Models, o \in GetAllOptions}

\* Answers of every shape: a status, an error member and a result member
\* in every combination
Statuses == {200, 404, 500}

ErrorMembers ==
    {NoError,
     ErrorOf("Odoo Server Error"),
     ErrorWithData("Odoo Server Error", ""),
     ErrorWithData("Odoo Server Error", "Access Denied")}

ResultMembers ==
    {JUndef, JNull, JBool(FALSE), JNum(0), JNum(7), JStr(""), JList(<<>>), JList(<<12>>)}

Envelopes ==
    {NetDown} \cup
    {Http(st, e, res) : st \in Statuses, e \in ErrorMembers, res \in ResultMembers}

\* execute(...) on an instance that holds session 7, awaiting its answer
ExecuteAwaiting == ExecuteWithUid(NewCall(1, "execute", "client", 0, <<>>), JNum(7))

ExecuteInputs == {[op |-> "execute", stage |-> "in", r |-> r] : r \in Envelopes}

\* authenticate() on a fresh instance, awaiting the answer to its login
AuthenticateAwaiting == StartCall(NewCall(1, "authenticate", "client", 0, <<>>), JNull)

AuthenticateInputs == {[op |-> "authenticate", stage |-> "in", r |-> r] : r \in Envelopes}

\* Math.floor(Math.random() * 1000000): any integer of 0..999999, of which
\* the least few are kept
RequestIds == {i \in 0..MaxRequestId : i < IdSpace}

\* The ids of the requests that are outstanding when a request is built
RequestInputs ==
    {[op |-> "request", stage |-> "in", outstanding |-> S] :
        S \in {T \in SUBSET RequestIds : Cardinality(T) <= MaxInFlight}}

\* A backend: its answer to every login and to every execute_kw
TwiceInputs ==
    {[op |-> "getAllTwice", stage |-> "in", login |-> rl, r |-> r] :
        rl \in LoginResponses, r \in Envelopes}

FnInputs ==
    SearchByNameInputs \cup GetAllInputs \cup ExecuteInputs \cup AuthenticateInputs \cup
    TwiceInputs \cup
    RequestInputs

FnInit == Constructed /\ probe \in FnInputs

CallSearchByName ==
    /\ probe.op = "searchByName" /\ probe.stage = "in"
    /\ probe' = [op |-> "searchByName", stage |-> "out", model |-> probe.model,
                 query |-> probe.query, options |-> probe.options,
                 request |-> SearchByNameRequest(probe.model, probe.query, probe.options)]
    /\ UNCHANGED <<svcVars, viewVars, clientVars, orderly, loginsOk>>

CallGetAll ==
    /\ probe.op = "getAll" /\ probe.stage = "in"
    /\ probe' = [op |-> "getAll", stage |-> "out", model |-> probe.model,
                 options |-> probe.options,
                 request |-> GetAllRequest(probe.model, probe.options)]
    /\ UNCHANGED <<svcVars, viewVars, clientVars, orderly, loginsOk>>

AnswerExecute ==
    /\ probe.op = "execute" /\ probe.stage = "in"
    /\ probe' = [op |-> "execute", stage |-> "out", r |-> probe.r,
                 out |-> ExecuteAnswer(ExecuteAwaiting, probe.r)]
    /\ UNCHANGED <<svcVars, viewVars, clientVars, orderly, loginsOk>>

AnswerAuthenticate ==
    /\ probe.op = "authenticate" /\ probe.stage = "in"
    /\ probe' = [op |-> "authenticate", stage |-> "out", r |-> probe.r,
                 out |-> LoginAnswer(AuthenticateAwaiting, JNull, probe.r),
                 uid |-> LoginUid(JNull, probe.r)]
    /\ UNCHANGED <<svcVars, viewVars, clientVars, orderly, loginsOk>>

\* await getAll(...); await getAll(...)  on a fresh instance
CallGetAllTwice ==
    /\ probe.op = "getAllTwice" /\ probe.stage = "in"
    /\ probe' = [op |-> "getAllTwice", stage |-> "out", login |-> probe.login, r |-> probe.r,
                 first |-> RunCall(NewCall(1, "getAll", "client", 0, <<>>), JNull,
                                   probe.login, probe.r),
                 second |-> RunCall(NewCall(2, "getAll", "client", 0, <<>>),
                                    CacheAfter(JNull, probe.login), probe.login, probe.r)]
    /\ UNCHANGED <<svcVars, viewVars, clientVars, orderly, loginsOk>>

\* authenticate / execute build requestBody: the id is drawn whatever the
\* ids outstanding
BuildRequest ==
    /\ probe.op = "request" /\ probe.stage = "in"
    /\ \E id \in RequestIds :
         probe' = [op |-> "request", stage |-> "out",
                   outstanding |-> probe.outstanding, id |-> id]
    /\ UNCHANGED <<svcVars, viewVars, clientVars, orderly, loginsOk>>

FnNext ==
    \/ CallSearchByName
    \/ CallGetAll
    \/ AnswerExecute
    \/ AnswerAuthenticate
    \/ CallGetAllTwice
    \/ BuildRequest

FnSpec == FnInit /\ [][FnNext]_vars

(***************************************************************************)
(* Properties of the service (checked under SvcSpec)                       *)
(***************************************************************************)
Settled == {done[k] : k \in DOMAIN done}

Known == pending \cup Settled

\* C1: with calls running one after another and every login returning a
\* session id, only the first call after construction or after an
\* invalidateAuth sends a login request: calls made while the cache is
\* populated send none, and the first call after invalidateAuth sends exactly
\* one.
C1_SessionReuse ==
    (orderly /\ loginsOk) =>
        /\ epochLogins <= 1
        /\ (epochCalls >= 1 => epochLogins = 1)

C1_Witness ==
    /\ orderly /\ loginsOk
    /\ nInval = 1
    /\ nStarted = 3
    /\ epochCalls = 2
    /\ epochLogins = 1
    /\ pending = {}
    /\ \E c \in Settled : c.api = "execute" /\ c.login = "none" /\ c.exec # "none"

\* C2: a call whose login failed sends no execute_kw request and resolves to
\* no session (authenticate) or absent (execute); every execute_kw request
\* sent carries a truthy session id that a login on the same instance returned.
C2_NoExecuteWithoutSession ==
    \A c \in Known :
        /\ c.login = "failed" =>
              /\ c.exec = "none"
              /\ ~Pending(c)
              /\ c.state = "resolved"
              /\ (c.api \in {"authenticate", "execute"} => c.value = JNull)
        /\ c.exec # "none" =>
              /\ Truthy(c.execUid)
              /\ c.execUid \in issued[c.inst]

C2_Witness ==
    \E c \in Settled :
        /\ c.api = "execute"
        /\ c.login = "failed"
        /\ c.fault = "rpc"
        /\ c.value = JNull

\* C3: the step in which a login fails leaves every session cache as it was,
\* and a call started while the cache of its instance is unset sends a login
\* request.
C3_FailedLoginKeepsCache ==
    [][ /\ \A c \in pending :
             ( /\ c.pc = "login"
               /\ c \notin pending'
               /\ done' # <<>>
               /\ done'[1].seq = c.seq
               /\ done'[1].login = "failed" ) => uid' = uid
        /\ \A c \in pending' :
             ( /\ \A d \in pending : d.seq # c.seq
               /\ ~Truthy(uid[c.inst]) ) => (c.pc = "login" /\ c.login = "sent")
      ]_vars

C3_Witness ==
    /\ orderly
    /\ nStarted = 2
    /\ epochLogins = 2
    /\ uid[0] = JNull
    /\ \E c \in Settled : c.login = "failed"

\* C4: searchByName and getAll never reject, and when the transport answers
\* the login or the execute_kw request with a non-success HTTP status they
\* resolve to the empty sequence with at least one notification shown.
C4_HttpFailureDegrades ==
    \A c \in Known :
        c.api \in SearchApis =>
            /\ c.state # "rejected"
            /\ c.fault = "http" =>
                  /\ c.state = "resolved"
                  /\ c.value = JList(<<>>)
                  /\ Len(c.toasts) >= 1

C4_Witness ==
    /\ \E c \in Settled :
          c.api = "searchByName" /\ c.exec = "failed" /\ c.fault = "http"

\* A search or listing that did not bring records back because something
\* went wrong: a request failed, or login answered without a session id.
EmptyAuth(c) == c.login = "ok" /\ c.exec = "none"

FailedSearch(c) ==
    /\ c.api \in SearchApis
    /\ ~Pending(c)
    /\ (c.login = "failed" \/ c.exec = "failed" \/ EmptyAuth(c))

\* C5: every failed search or listing, the EmptyAuth case included, resolves
\* to an empty result and is accompanied by a failure notification.
C5_EveryFailureNotified ==
    \A c \in Settled :
        FailedSearch(c) => (c.value = JList(<<>>) /\ Len(c.toasts) >= 1)

\* C16: one invocation of searchByName or getAll sends at most one login
\* request and at most one execute_kw request, and a request that failed
\* ends the invocation: nothing is sent again.
C16_NoRetry ==
    \A c \in Known :
        c.api \in SearchApis =>
            /\ c.logins <= 1
            /\ c.execs <= 1
            /\ (c.login = "failed" \/ c.exec = "failed") => ~Pending(c)
            /\ c.login = "failed" => c.execs = 0

C16_Witness ==
    \E c \in Settled :
        /\ c.api = "getAll"
        /\ c.login = "ok"
        /\ c.exec = "failed"
        /\ c.logins = 1
        /\ c.execs = 1

\* C23: after invalidateAuth the next call on the instance sends a login
\* request, in every interleaving of calls, answers and invalidateAuth.
C23_LoginAfterInvalidate == (nInval = 1 /\ epochCalls >= 1) => epochLogins >= 1

\* C25: logins are not deduplicated: a call started while the cache of its
\* instance is unset sends its own login request, also when another login is
\* in flight; and the step in which a login returns stores in the cache what
\* that login returned, so the cache holds the id of the login answered last.
C25_LoginsNotDeduplicated ==
    [][ /\ \A c \in pending' :
             ( /\ \A d \in pending : d.seq # c.seq
               /\ ~Truthy(uid[c.inst]) ) =>
                 (c.pc = "login" /\ c.login = "sent" /\ c.logins = 1)
        /\ \A c \in pending :
             c.pc = "login" =>
                 \A d \in pending' \cup {done'[k] : k \in DOMAIN done'} :
                     (d.seq = c.seq /\ d.login = "ok") =>
                         IF d.exec = "sent" THEN uid'[c.inst] = d.execUid
                         ELSE IF d.api = "authenticate" THEN uid'[c.inst] = d.value
                         ELSE uid'[c.inst] = JNull
      ]_vars

C25_Witness ==
    /\ uid[0] = JNum(8)
    /\ \E c, d \in pending :
          /\ c.api = "execute" /\ d.api = "execute"
          /\ c.logins = 1 /\ d.logins = 1
          /\ c.pc = "exec" /\ d.pc = "exec"
          /\ c.execUid = JNum(7) /\ d.execUid = JNum(8)

\* C27: a searchByName or getAll call shows at most one notification; when
\* its login request failed it shows exactly one, shown by authenticate, and
\* when its execute_kw request failed exactly one, shown by searchRead.
C27_OneNotification ==
    \A c \in Known :
        c.api \in SearchApis =>
            /\ Len(c.toasts) <= 1
            /\ c.login = "failed" =>
                  (Len(c.toasts) = 1 /\ c.toasts[1].title = "Authentication Error")
            /\ c.exec = "failed" =>
                  (Len(c.toasts) = 1 /\ c.toasts[1].title = "Search Error")

C27_Witness ==
    \E c \in Settled :
        /\ c.api = "searchByName"
        /\ c.login = "failed"
        /\ c.fault = "network"
        /\ c.value = JList(<<>>)
        /\ Len(c.toasts) = 1
        /\ c.toasts[1].title = "Authentication Error"

\* The showToast call in authenticate's catch block is told from the one in
\* searchRead's by its title.
ByAuthenticate(title) == title = "Authentication Error"

\* C13: authenticate and execute show no notification themselves: a call of
\* authenticate or execute comes with none, and the notifications of a
\* searchByName or getAll call are all shown by searchRead.
C13_OnlyHelpersNotify ==
    \A c \in Known :
        /\ c.api \in {"authenticate", "execute"} => c.toasts = <<>>
        /\ \A k \in DOMAIN c.toasts : ~ByAuthenticate(c.toasts[k].title)

(***************************************************************************)
(* Properties of the view (checked under Spec)                             *)
(***************************************************************************)
HasFired == lastFire.gen >= 0

\* C6: when the debounce timer fires and the current text has length 1 the
\* view dispatches nothing; when it has length 0 the view dispatches getAll.
C6_MinimumLengthGate ==
    HasFired =>
        /\ Len(lastFire.curText) = 1 => lastFire.dispatched = "nothing"
        /\ Len(lastFire.curText) = 0 => lastFire.dispatched = "getAll"

C6_Witness ==
    /\ fired = <<0, 1>>
    /\ Len(lastFire.curText) = 1
    /\ lastFire.dispatched = "nothing"
    /\ nStarted = 2

\* C7 as stated: when the debounce timer fires with a current text of length
\* >= 2, the view dispatches searchByName with that text, whitespace-only
\* texts included.
C7_SearchForEveryLongText ==
    (HasFired /\ Len(lastFire.curText) >= 2) =>
        (lastFire.dispatched = "searchByName" /\ lastFire.query = lastFire.curText)

\* C7 (amended): when the debounce timer fires with a current text of length
\* >= 2, the view dispatches searchByName with that text unmodified if the
\* text holds a non-whitespace character; if it holds only whitespace the
\* view sends no request and the result set becomes empty.
C7_SearchForNonBlankText ==
    (HasFired /\ Len(lastFire.curText) >= 2) =>
        IF \E k \in DOMAIN lastFire.curText : ~IsSpace(lastFire.curText[k])
        THEN lastFire.dispatched = "searchByName" /\ lastFire.query = lastFire.curText
        ELSE lastFire.dispatched = "blank"

C7_Witness ==
    /\ HasFired
    /\ lastFire.curText = <<"a", " ">>
    /\ lastFire.dispatched = "searchByName"
    /\ \E c \in pending : c.api = "searchByName" /\ c.text = <<"a", " ">>

\* fired is strictly increasing: no render's timer fires twice, none fires
\* after the timer of a later render.
Increasing(s) == \A j, k \in DOMAIN s : j < k => s[j] < s[k]

\* C8: every text change cancels the pending debounce timer and arms a new
\* one of 300 units, so at most one timer is pending, it is the one of the
\* last change, a timer that fires is the one of the last change and uses
\* its text, and no superseded timer ever fires.
C8_DebounceCoalescing ==
    /\ [](/\ Cardinality(timers) <= 1
          /\ \A t \in timers : t.gen = nChanges /\ t.text = searchText
          /\ Increasing(fired)
          /\ HasFired => (lastFire.gen = lastFire.curGen /\ lastFire.text = lastFire.curText))
    /\ [][searchText' # searchText =>
            timers' = {[gen |-> nChanges', text |-> searchText', left |-> DebounceDelay]}]_vars

C8_Witness ==
    /\ nChanges = 2
    /\ fired = <<2>>
    /\ lastFire.gen = 2
    /\ lastFire.dispatched = "searchByName"
    /\ nStarted = 2

\* C9: the result set is the payload of the dispatch that settled last,
\* whichever dispatch started first.
C9_LastCompletionWins == shown.seq > 0 => projects = shown.payload

C9_Witness ==
    /\ shown.seq > 0
    /\ shown.seq < shown.overSeq
    /\ shown.payload # shown.overPayload
    /\ projects = shown.payload
    /\ pending = {}
    /\ done = <<>>

\* C10: the step that mounts the view dispatches exactly one getAll, while
\* the debounce timer armed in the same step still has its full delay to run.
C10_MountLoadsAll ==
    [][(~mounted /\ mounted') =>
          /\ \E c \in pending' :
                /\ pending' = {c}
                /\ c.origin = "mount"
                /\ c.api = "getAll"
                /\ c.seq = 1
          /\ \A t \in timers' : t.left = DebounceDelay
          /\ fired' = <<>>]_vars

C10_Witness ==
    /\ mounted
    /\ fired = <<>>
    /\ \E c \in pending : c.origin = "mount" /\ c.api = "getAll" /\ c.login = "sent"
    /\ \E t \in timers : t.left = DebounceDelay

\* The requests the view has dispatched and that are still in flight
InFlight == {c \in pending : c.origin # "client"}

\* C17: in every state where no request dispatched by the view is in flight,
\* isLoading is false, whatever the outcomes and the order of completions.
C17_NeverStuckLoading == InFlight = {} => ~isLoading

C17_Witness ==
    /\ InFlight = {}
    /\ ~isLoading
    /\ nStarted >= 2
    /\ shown.seq < shown.overSeq
    /\ done # <<>>
    /\ done[1].exec = "failed"

\* C26 as stated: isLoading is true in every state where a request
\* dispatched by the view is in flight, also when two dispatches overlap and
\* one of them has completed.
C26_LoadingWhileInFlight == InFlight # {} => isLoading

\* C26 (amended): isLoading is true from a dispatch until the next completion
\* of a dispatched request: it is true in every state where a request is in
\* flight and no request has completed since the last dispatch, and the step
\* in which a request completes sets it to false even when another request is
\* still in flight.
C26_LoadingUntilCompletion ==
    [][ /\ (InFlight' # {} /\ \E c \in InFlight' : c.seq = nStarted' /\ nStarted' # nStarted)
              => isLoading'
        /\ (done' # <<>> /\ done'[1].origin # "client" /\ done'[1].api # "none")
              => ~isLoading'
        /\ (isLoading' # isLoading) =>
              (nStarted' # nStarted \/ done' # <<>>)
      ]_vars

C26_Witness ==
    /\ InFlight # {}
    /\ ~isLoading
    /\ done # <<>>
    /\ done[1].seq = 1
    /\ \E c \in InFlight : c.seq = 2

\* C28: when the view is mounted and no text change follows, one getAll is
\* dispatched by the mount effect at once and a second one when the timer
\* armed at mount fires with the empty text, its 300 units having run out:
\* two dispatches in total.
C28_TwoLoadsAtMount ==
    /\ [](/\ (mounted /\ nChanges = 0 /\ fired = <<>>) =>
                /\ nStarted = 1
                /\ \E t \in timers : timers = {t} /\ t.gen = 0 /\ t.text = <<>> /\ t.left >= 0
          /\ (nChanges = 0 /\ fired # <<>>) =>
                /\ fired = <<0>>
                /\ nStarted = 2
                /\ timers = {}
                /\ lastFire.dispatched = "getAll"
                /\ lastFire.text = <<>>)
    /\ [][(nChanges' = 0 /\ fired = <<>> /\ fired' # <<>>) =>
            /\ \E t \in timers : t.gen = 0 /\ t.left = 0
            /\ \E c \in pending' : c.seq = 2 /\ c.api = "getAll" /\ c.origin = "timer"]_vars

C28_Witness ==
    /\ nChanges = 0
    /\ fired = <<0>>
    /\ nStarted = 2
    /\ \E c, d \in pending :
          /\ c.seq = 1 /\ c.origin = "mount" /\ c.api = "getAll"
          /\ d.seq = 2 /\ d.origin = "timer" /\ d.api = "getAll"

\* C29: the step in which the debounce timer fires with a text of length 1
\* dispatches nothing and leaves the result set and isLoading as they were;
\* and the result set changes only in a step in which a dispatched request
\* completes or searchProjects is given a whitespace-only text.
C29_ShortTextFrame ==
    [][ /\ (fired' # fired /\ Len(lastFire'.text) = 1) =>
              /\ projects' = projects
              /\ isLoading' = isLoading
              /\ pending' = pending
              /\ nStarted' = nStarted
        /\ projects' # projects =>
              /\ done' # <<>>
              /\ \/ \E c \in pending : c.seq = done'[1].seq /\ c.api = done'[1].api
                 \/ /\ done'[1].api = "none"
                    /\ done'[1].text # <<>>
                    /\ \A k \in DOMAIN done'[1].text : done'[1].text[k] = " "
      ]_vars

C29_Witness ==
    /\ HasFired
    /\ Len(lastFire.text) = 1
    /\ lastFire.dispatched = "nothing"
    /\ lastFire.gen = nChanges
    /\ projects = <<12>>
    /\ ~isLoading
    /\ pending = {}

\* C18: a request in flight is never aborted or dropped: in every step it
\* stays in flight or its invocation settles; and the step in which an
\* invocation settles replaces the result set by its payload, also when a
\* newer text change, timer or dispatch happened in between.
C18_NeverDropped ==
    [][ /\ \A c \in InFlight :
             \/ \E d \in pending' : d.seq = c.seq
             \/ done' # <<>> /\ done'[1].seq = c.seq
        /\ (done' # <<>> /\ done'[1].origin # "client") =>
              projects' = done'[1].value.l
      ]_vars

C18_Witness ==
    /\ done # <<>>
    /\ done[1].seq = 1
    /\ done[1].value = JList(<<12>>)
    /\ projects = <<12>>
    /\ nChanges >= 1
    /\ fired # <<>>
    /\ \E c \in InFlight : c.seq > 1 /\ c.api = "searchByName"

\* C19: once a login of the view has returned a session id, and as long as
\* no login has failed, a dispatch triggered by a later text change sends no
\* login request.
C19_SessionAcrossKeystrokes ==
    [][ \A c \in pending' :
            ( /\ nStarted' = nStarted + 1
              /\ c.seq = nStarted'
              /\ c.origin = "timer"
              /\ c.inst >= 1
              /\ loginsOk
              /\ \E i \in Instances : issued[i] # {} ) => c.login = "none"
      ]_vars

\* C20: every searchByName call the view makes has a text with at least one
\* character that is not whitespace, whatever the text changes and timer
\* firings before it.
C20_NoBlankSearch ==
    \A c \in Known :
        (c.api = "searchByName" /\ c.origin # "client") =>
            \E k \in DOMAIN c.text : c.text[k] # " "

C20_Witness ==
    /\ lastFire.dispatched = "searchByName"
    /\ lastFire.query = <<" ", "a">>
    /\ \E c \in pending :
          c.api = "searchByName" /\ c.text = <<" ", "a">> /\ c.pc = "login"

(***************************************************************************)
(* Properties of the service functions (checked under FnSpec)              *)
(***************************************************************************)
Applied(op) == probe.op = op /\ probe.stage = "out"

\* C11: searchByName(model, text, {fields}) hands execute the method
\* search_read, the positional arguments [OR(name ilike text, display_name
\* ilike text)] with the text unmodified, and keyword options that hold the
\* fields projection and no other key.
C11_SearchByNameRequest ==
    Applied("searchByName") =>
        /\ probe.request.model = probe.model
        /\ probe.request.method = "search_read"
        /\ probe.request.args =
              << <<"|", <<"name", "ilike", probe.query>>,
                        <<"display_name", "ilike", probe.query>>>> >>
        /\ DOMAIN probe.request.kwargs = {"fields"}
        /\ probe.request.kwargs["fields"] = probe.options.fields

\* C12: getAll(model, {fields, limit: cap}) hands execute the method
\* search_read, an empty predicate and the keyword options {fields, limit:
\* cap} for every cap >= 0, and {fields, limit: 100} when no cap is given.
C12_GetAllRequest ==
    Applied("getAll") =>
        /\ probe.request.model = probe.model
        /\ probe.request.method = "search_read"
        /\ probe.request.args = << <<>> >>
        /\ DOMAIN probe.request.kwargs = {"fields", "limit"}
        /\ probe.request.kwargs["fields"] = probe.options.fields
        /\ probe.request.kwargs["limit"] =
              IF "limit" \in DOMAIN probe.options THEN probe.options.limit
              ELSE JNum(100)

\* C14: when the execute_kw request fails (fetch rejects, a status outside
\* 200..299, or an error member in the body) execute rejects with the error
\* of that failure and resolves to nothing; with a status outside 200..299
\* the error is the one naming the status, whatever the body holds.
C14_ExecutePropagates ==
    Applied("execute") =>
        LET r == probe.r
            c == probe.out
            badStatus == r.net /\ (r.status < 200 \/ r.status > 299)
        IN  /\ (~r.net \/ badStatus \/ r.error.present) =>
                  /\ c.state = "rejected"
                  /\ c.value = JUndef
                  /\ c.toasts = <<>>
                  /\ c.error # ""
            /\ ~r.net => c.error = "fetch failed"
            /\ badStatus => c.error = "HTTP error! status: " \o ToString(r.status)
            /\ (r.net /\ ~badStatus /\ r.error.present) =>
                  c.error \in {r.error.message, r.error.dataMessage}

C14_Witness ==
    /\ Applied("execute")
    /\ probe.r = Http(404, ErrorWithData("Odoo Server Error", "Access Denied"), JList(<<12>>))
    /\ probe.out.state = "rejected"
    /\ probe.out.error = "HTTP error! status: 404"

\* A body was decoded (the status is in 200..299) and it has an error member.
ErrorEnvelope(r) == r.net /\ r.status >= 200 /\ r.status <= 299 /\ r.error.present

\* C15: when the decoded envelope has an error member, the failure message
\* is the error's data.message when that is present and non-empty, else its
\* top-level message, and the result member is not used even when present:
\* execute rejects with that message, authenticate notifies that message,
\* returns no session and stores none.
C15_ErrorEnvelope ==
    ((Applied("execute") \/ Applied("authenticate")) /\ ErrorEnvelope(probe.r)) =>
        LET e == probe.r.error
            c == probe.out
            msg == IF e.hasData /\ e.dataMessage # "" THEN e.dataMessage ELSE e.message
        IN  IF probe.op = "execute"
            THEN /\ c.state = "rejected"
                 /\ c.error = msg
                 /\ c.value = JUndef
            ELSE /\ c.toasts = <<[title |-> "Authentication Error", message |-> msg]>>
                 /\ c.state = "resolved"
                 /\ c.value = JNull
                 /\ probe.uid = JNull

C15_Witness ==
    /\ Applied("authenticate")
    /\ probe.r = Http(200, ErrorWithData("Odoo Server Error", ""), JNum(7))
    /\ probe.out.toasts[1].message = "Odoo Server Error"
    /\ probe.out.value = JNull
    /\ probe.uid = JNull

\* C21: two getAll calls in a row on one instance, the backend answering
\* both alike and no request failing, return equal record sequences; when
\* the login returns a session id the first call logs in and the second
\* sends its execute_kw request with the cached id and no login.
C21_GetAllTwiceEqual ==
    (Applied("getAllTwice") /\ probe.first.fault = "" /\ probe.second.fault = "") =>
        /\ probe.first.state = "resolved" /\ probe.second.state = "resolved"
        /\ probe.first.value = probe.second.value
        /\ probe.first.logins = 1
        /\ probe.first.exec = "ok" =>
              /\ probe.second.logins = 0
              /\ probe.second.exec = "ok"
              /\ probe.second.execUid = probe.first.execUid

C21_Witness ==
    /\ Applied("getAllTwice")
    /\ probe.first.value = JList(<<12>>)
    /\ probe.second.value = JList(<<12>>)
    /\ probe.first.logins = 1
    /\ probe.second.logins = 0
    /\ probe.second.execs = 1

\* C22: the correlation id of a request differs from the id of every
\* request that is outstanding when it is built.
C22_DistinctIds == Applied("request") => probe.id \notin probe.outstanding

\* C24: when the decoded envelope has no error member, execute resolves to
\* its result member as it is, the falsy values 0, false and "" included.
C24_ResultVerbatim ==
    ( /\ Applied("execute")
      /\ probe.r.net /\ probe.r.status >= 200 /\ probe.r.status <= 299
      /\ ~probe.r.error.present
      /\ probe.r.result # JUndef ) =>
        /\ probe.out.state = "resolved"
        /\ probe.out.value = probe.r.result

(***************************************************************************)
(* Properties of the per-view variants (checked under PerViewSpec)         *)
(***************************************************************************)
\* C30: every dispatch of a per-view variant sends one login request first,
\* whatever the logins before it returned; it sends its execute_kw request
\* only after its own login returned a session id that is not null (nor
\* otherwise falsy); and when the login fails or returns no id the dispatch
\* ends with an empty result and no execute_kw request.
C30_PerViewLoginFirst ==
    \A c \in Known :
        /\ c.logins = 1
        /\ c.pc = "login" => (c.login = "sent" /\ c.exec = "none")
        /\ c.exec # "none" =>
              /\ c.login = "ok"
              /\ c.execs = 1
              /\ c.execUid # JNull /\ Truthy(c.execUid)
        /\ (c.login = "failed" \/ (c.login = "ok" /\ c.exec = "none")) =>
              /\ ~Pending(c)
              /\ c.state = "resolved"
              /\ c.value = JList(<<>>)
              /\ c.execs = 0

C30_Witness ==
    /\ nStarted = 2
    /\ projects = <<>>
    /\ ~isLoading
    /\ \E c \in Settled :
          /\ c.seq = 2
          /\ c.login = "ok"
          /\ c.exec = "none"
          /\ c.value = JList(<<>>)
          /\ c.toasts = <<>>

====
